---- MODULE Spec2Model ----
(***************************************************************************)
(* Session controller of the scene assistant (src/static/script.js): the   *)
(* catalog load, location / room selection, the party, the cast shown in   *)
(* npcSelect and the NPC cards, the action dispatcher with its overlapping *)
(* generation requests, and the transcript held in generationResult.       *)
(* src/unnamed/part_000 is the same controller with plainer markup in the  *)
(* transcript entries; its handlers read and write the same state.         *)
(***************************************************************************)
EXTENDS Integers, Sequences, FiniteSets, TLC

VARIABLES
    initPc,            \* position of fetchInitialData
    locationsData,     \* let locationsData
    npcsData,          \* let npcsData
    partyNpcIds,       \* let partyNpcIds (a Set of _id)
    locationOptions,   \* option values of locationSelect (after the default option)
    locationSelect,    \* locationSelect.value
    roomOptions,       \* option values of roomSelect (after the default option)
    roomSelect,        \* roomSelect.value
    npcSelect,         \* options of npcSelect: the cast shown
    npcCardContainer,  \* the NPC cards, each with its action buttons
    descriptionResult, \* what descriptionResult shows
    generationResult,  \* generationResult.innerHTML: the transcript
    inflight,          \* generation requests awaiting their response
    dispatched,        \* number of handleAction calls so far
    lastOp             \* history: the handler that ran last, with its inputs

vars == <<initPc, locationsData, npcsData, partyNpcIds, locationOptions,
          locationSelect, roomOptions, roomSelect, npcSelect, npcCardContainer,
          descriptionResult, generationResult, inflight, dispatched, lastOp>>

-----------------------------------------------------------------------------
(* Bounds of the model *)

MaxDispatch == 1
MaxDialogue == 2

-----------------------------------------------------------------------------
(* Sequence helpers *)

Range(s) == {s[i] : i \in 1..Len(s)}

\* Array.prototype.find over records with a name field: index of the first
\* match, 0 when find returns undefined
FindByName(s, name) ==
    IF \E i \in 1..Len(s) : s[i].name = name
    THEN CHOOSE i \in 1..Len(s) :
            /\ s[i].name = name
            /\ \A j \in 1..(i - 1) : s[j].name # name
    ELSE 0

\* all sequences over S of length at most n
RECURSIVE SeqsUpTo(_, _)
SeqsUpTo(S, n) ==
    IF n = 0 THEN {<<>>}
    ELSE LET shorter == SeqsUpTo(S, n - 1)
         IN  shorter \cup {Append(s, x) : s \in {t \in shorter : Len(t) = n - 1}, x \in S}

\* the subsequence of s at the positions in idx, in the order of s
RECURSIVE SubSeqAt(_, _, _)
SubSeqAt(s, idx, i) ==
    IF i > Len(s) THEN <<>>
    ELSE (IF i \in idx THEN <<s[i]>> ELSE <<>>) \o SubSeqAt(s, idx, i + 1)

-----------------------------------------------------------------------------
(* Texts.  A text is a string; only whether it is empty and whether it      *)
(* contains placeholderText matters to the code.                            *)

placeholderText == "Your generated scene will appear here..."

\* String.prototype.includes(placeholderText) on one piece of text
IncludesPlaceholder(text) == text = placeholderText

-----------------------------------------------------------------------------
(* Catalogs the backend may serve.  An NPC record is                        *)
(*   [_id, name, dialogue_options, skill_checks]                            *)
(* with skill_checks the labels in for-in order; a room is                  *)
(*   [name, hasNpcs, npcs]  (hasNpcs = FALSE: the room has no npcs field).  *)

Npc(id, name, options, skills) ==
    [_id |-> id, name |-> name, dialogue_options |-> options, skill_checks |-> skills]

Room(name, hasNpcs, npcs) == [name |-> name, hasNpcs |-> hasNpcs, npcs |-> npcs]

Keep ==
    [name |-> "Keep",
     rooms |-> << Room("Hall", TRUE, <<"Elara", "Gorim">>),
                  Room("Cell", TRUE, <<"Thorn", "Elara">>) >>]

Wood == [name |-> "Wood", rooms |-> << Room("Glade", FALSE, <<>>) >>]

\* names unique, as the data model requires; "Thorn" of the Cell is not in it
NpcsTwo ==
    << Npc(1, "Gorim", <<"Any news?">>, <<"">>),
       Npc(2, "Elara", <<>>, <<>>) >>

NpcsThree ==
    << Npc(1, "Gorim", <<"Any news?">>, <<"Persuade">>),
       Npc(2, "Elara", <<>>, <<>>),
       Npc(3, "Thorn", <<"Any news?">>, <<>>) >>

\* ids unique, one name used twice
NpcsSameName ==
    << Npc(1, "Gorim", <<"Any news?">>, <<>>),
       Npc(2, "Elara", <<>>, <<>>),
       Npc(3, "Elara", <<"Any news?">>, <<>>) >>

\* what the session may load, and what the cast is resolved over
LocationCatalogs == {<<Keep>>}
NpcCatalogs == {NpcsTwo}
LocationCatalogsCast == {<<Keep, Wood>>}
NpcCatalogsCast == {NpcsTwo, NpcsThree, NpcsSameName}

-----------------------------------------------------------------------------
(* Display values *)

\* an option of npcSelect: its value, and whether its text carries ' (Party)'
Option(npc, isPartyMember) == [value |-> npc.name, isPartyMember |-> isPartyMember]

Button(type, prompt) == [type |-> type, prompt |-> prompt]

DescriptionInitial == [kind |-> "initial", location |-> "", room |-> ""]
DescriptionLoadError == [kind |-> "load-error", location |-> "", room |-> ""]
DescriptionSelectRoom == [kind |-> "select-a-room", location |-> "", room |-> ""]
DescriptionOfRoom(location, room) ==
    [kind |-> "room", location |-> location.name, room |-> room.name]

-----------------------------------------------------------------------------
(* updateCurrentNpcs *)

partyNpcs(npcs, party) == SelectSeq(npcs, LAMBDA n : n._id \in party)

roomNpcNames(room) == IF room.hasNpcs THEN Range(room.npcs) ELSE {}

\* as roomNpcs, each name of the room resolved with find: the first NPC of
\* that name alone
RoomNpcsFirstOfName(npcs, room) ==
    SelectSeq(npcs, LAMBDA n : /\ n.name \in roomNpcNames(room)
                               /\ npcs[FindByName(npcs, n.name)] = n)

roomNpcs(npcs, room) == SelectSeq(npcs, LAMBDA n : n.name \in roomNpcNames(room))

\* roomNpcs.forEach(npc => if (!all.some(p => p._id === npc._id)) all.push(npc))
RECURSIVE PushRoomNpcs(_, _)
PushRoomNpcs(all, rest) ==
    IF rest = <<>> THEN all
    ELSE LET npc == Head(rest)
         IN  PushRoomNpcs(IF \E i \in 1..Len(all) : all[i]._id = npc._id
                          THEN all
                          ELSE Append(all, npc),
                          Tail(rest))

\* as allNpcsInScene, the room NPCs pushed without the check of _id
AllNpcsInSceneUnchecked(npcs, room, party) ==
    partyNpcs(npcs, party) \o roomNpcs(npcs, room)

\* as allNpcsInScene, one filter of the catalog: the NPCs stay in catalog order
AllNpcsInSceneCatalogOrder(npcs, room, party) ==
    SelectSeq(npcs, LAMBDA n : n._id \in party \/ n.name \in roomNpcNames(room))

\* as allNpcsInScene, the NPCs of the room alone: the party is left behind
AllNpcsInSceneRoomOnly(npcs, room, party) == roomNpcs(npcs, room)

allNpcsInScene(npcs, room, party) ==
    PushRoomNpcs(partyNpcs(npcs, party), roomNpcs(npcs, room))

\* renderNpcCard: the dialogue buttons, then the skill-check buttons.  A
\* label reaches dataset.prompt through the markup of the card; the labels
\* of the catalogs here hold no character that markup would alter.
renderNpcCard(npc) ==
    [npcName |-> npc.name,
     buttons |-> [i \in 1..Len(npc.dialogue_options) |->
                     Button("dialogue", npc.dialogue_options[i])]
                 \o [i \in 1..Len(npc.skill_checks) |->
                     Button("skill_check", npc.skill_checks[i])]]

\* as RenderOptions, without npcSelect.innerHTML = ''
RenderOptionsUncleared(old, scene, party) ==
    old \o [i \in 1..Len(scene) |-> Option(scene[i], scene[i]._id \in party)]

\* npcSelect.innerHTML = '' and then one appended option per NPC of the scene
RenderOptions(old, scene, party) ==
    LET cleared == <<>>
    IN  cleared \o [i \in 1..Len(scene) |-> Option(scene[i], scene[i]._id \in party)]

\* npcCardContainer.innerHTML = '' and then one appended card per NPC
RenderCards(old, scene) ==
    LET cleared == <<>>
    IN  cleared \o [i \in 1..Len(scene) |-> renderNpcCard(scene[i])]

\* The display after updateCurrentNpcs, from the display before it.  ran tells
\* whether the function got past its two early returns, and scene is the
\* allNpcsInScene it then computed.
updateCurrentNpcs(locs, npcs, party, locationName, roomName, display) ==
    LET li == FindByName(locs, locationName)
    IN  IF li = 0 THEN display
        ELSE LET location == locs[li]
                 ri == FindByName(location.rooms, roomName)
             IN  IF ri = 0 THEN display
                 ELSE LET room == location.rooms[ri]
                          scene == allNpcsInScene(npcs, room, party)
                      IN  [description |-> DescriptionOfRoom(location, room),
                           npcSelect |-> RenderOptions(display.npcSelect, scene, party),
                           cards |-> RenderCards(display.cards, scene),
                           ran |-> TRUE,
                           scene |-> scene]

\* the display as it stands, before a handler touches it
Display ==
    [description |-> descriptionResult,
     npcSelect |-> npcSelect,
     cards |-> npcCardContainer,
     ran |-> FALSE,
     scene |-> <<>>]

\* the history record of a handler: its name, its inputs (for a reply, also
\* the NPC records it found), whether it ran updateCurrentNpcs to the end,
\* and the allNpcsInScene computed there
Op(op, arg, display) ==
    [op |-> op, arg |-> arg, ran |-> display.ran, scene |-> display.scene]

NoArg == [none |-> TRUE]

ShowDisplay(display) ==
    /\ descriptionResult' = display.description
    /\ npcSelect' = display.npcSelect
    /\ npcCardContainer' = display.cards

-----------------------------------------------------------------------------
(* The transcript: generationResult.innerHTML as the sequence of the pieces  *)
(* of HTML it was built from.                                               *)

Entry(kind, who, text) == [kind |-> kind, who |-> who, text |-> text]

Placeholder == Entry("placeholder", "", placeholderText)
PlayerAction(npcName, promptText) == Entry("player", npcName, promptText)
SceneNarration(text) == Entry("scene", "", text)
NpcLine(d) == Entry("npc", d.speaker, d.line)
ErrorEntry(message) == Entry("error", "", message)

\* generationResult.innerHTML.includes(placeholderText)
InnerHtmlIncludesPlaceholder(html) ==
    \E i \in 1..Len(html) :
        IncludesPlaceholder(html[i].who) \/ IncludesPlaceholder(html[i].text)

\* as appendToGeneratedScene, the content put before what is kept
PrependToGeneratedScene(html, htmlContent) ==
    LET kept == IF InnerHtmlIncludesPlaceholder(html) THEN <<>> ELSE html
    IN  <<htmlContent>> \o kept

appendToGeneratedScene(html, htmlContent) ==
    LET kept == IF InnerHtmlIncludesPlaceholder(html) THEN <<>> ELSE html
    IN  Append(kept, htmlContent)

-----------------------------------------------------------------------------
(* fetchInitialData *)

InitFail ==
    /\ initPc' = "failed"
    /\ descriptionResult' = DescriptionLoadError

\* Promise.all of the two fetches: a rejection or a non-ok status goes to the
\* catch block, otherwise the two bodies are parsed one after the other
FetchBoth(ok) ==
    /\ initPc = "fetch"
    /\ IF ok
       THEN /\ initPc' = "parse-locations"
            /\ UNCHANGED descriptionResult
       ELSE InitFail
    /\ lastOp' = Op("fetchBoth", [ok |-> ok], Display)
    /\ UNCHANGED <<locationsData, npcsData, partyNpcIds, locationOptions,
                   locationSelect, roomOptions, roomSelect, npcSelect,
                   npcCardContainer, generationResult, inflight, dispatched>>

ParseLocations(ok, locs) ==
    /\ initPc = "parse-locations"
    /\ IF ok
       THEN /\ locationsData' = locs
            /\ initPc' = "parse-npcs"
            /\ UNCHANGED descriptionResult
       ELSE /\ InitFail
            /\ UNCHANGED locationsData
    /\ lastOp' = Op("parseLocations", [ok |-> ok], Display)
    /\ UNCHANGED <<npcsData, partyNpcIds, locationOptions,
                   locationSelect, roomOptions, roomSelect, npcSelect,
                   npcCardContainer, generationResult, inflight, dispatched>>

\* populateLocations
populateLocations(locs) == [i \in 1..Len(locs) |-> locs[i].name]

ParseNpcs(ok, npcs) ==
    /\ initPc = "parse-npcs"
    /\ IF ok
       THEN /\ npcsData' = npcs
            /\ locationOptions' = populateLocations(locationsData)
            /\ initPc' = "done"
            /\ UNCHANGED descriptionResult
       ELSE /\ InitFail
            /\ UNCHANGED <<npcsData, locationOptions>>
    /\ lastOp' = Op("parseNpcs", [ok |-> ok], Display)
    /\ UNCHANGED <<locationsData, partyNpcIds,
                   locationSelect, roomOptions, roomSelect, npcSelect,
                   npcCardContainer, generationResult, inflight, dispatched>>

-----------------------------------------------------------------------------
(* Selection of a location and of a room *)

\* the room options populateRooms leaves after the default option
populateRooms(locs, locationName) ==
    LET li == FindByName(locs, locationName)
    IN  IF li = 0 THEN <<>>
        ELSE [i \in 1..Len(locs[li].rooms) |-> locs[li].rooms[i].name]

\* locationSelect 'change': populateRooms(e.target.value)
SelectLocation(locationName) ==
    /\ locationName \in Range(locationOptions) \cup {""}
    /\ locationName # locationSelect
    /\ locationSelect' = locationName
    /\ roomOptions' = populateRooms(locationsData, locationName)
    /\ roomSelect' = ""
    /\ npcSelect' = <<>>
    /\ descriptionResult' = DescriptionSelectRoom
    /\ generationResult' = <<Placeholder>>
    /\ npcCardContainer' = <<>>
    /\ lastOp' = Op("selectLocation", [location |-> locationName], Display)
    /\ UNCHANGED <<initPc, locationsData, npcsData, partyNpcIds, locationOptions,
                   inflight, dispatched>>

\* roomSelect 'change': updateCurrentNpcs
SelectRoom(roomName) ==
    /\ roomName \in Range(roomOptions) \cup {""}
    /\ roomName # roomSelect
    /\ roomSelect' = roomName
    /\ LET display == updateCurrentNpcs(locationsData, npcsData, partyNpcIds,
                                        locationSelect, roomName, Display)
       IN  /\ ShowDisplay(display)
           /\ lastOp' = Op("selectRoom", [room |-> roomName], display)
    /\ UNCHANGED <<initPc, locationsData, npcsData, partyNpcIds, locationOptions,
                   locationSelect, roomOptions, generationResult, inflight,
                   dispatched>>

-----------------------------------------------------------------------------
(* The party *)

\* Array.from(npcSelect.selectedOptions).map(opt => opt.value), the user
\* having left selected the options at the positions idx
selectedNpcNames(options, idx) ==
    LET chosen == SubSeqAt(options, idx, 1)
    IN  [i \in 1..Len(chosen) |-> chosen[i].value]

\* as setParty, the ids added to the Set in place
SetPartyAdding(party, npcs, names) ==
    party \cup {npcs[i]._id : i \in {j \in 1..Len(npcs) : npcs[j].name \in Range(names)}}

\* new Set(npcsData.filter(n => selectedNpcNames.includes(n.name)).map(n => n._id))
setParty(party, npcs, names) ==
    {npcs[i]._id : i \in {j \in 1..Len(npcs) : npcs[j].name \in Range(names)}}

\* partyNpcIds.clear()
clearParty(party) == {}

SetParty(idx) ==
    /\ idx \subseteq 1..Len(npcSelect)
    /\ LET names == selectedNpcNames(npcSelect, idx)
           party == setParty(partyNpcIds, npcsData, names)
           display == updateCurrentNpcs(locationsData, npcsData, party,
                                        locationSelect, roomSelect, Display)
       IN  /\ partyNpcIds' = party
           /\ ShowDisplay(display)
           /\ lastOp' = Op("setParty", [names |-> names, before |-> partyNpcIds],
                           display)
    /\ UNCHANGED <<initPc, locationsData, npcsData, locationOptions, locationSelect,
                   roomOptions, roomSelect, generationResult, inflight, dispatched>>

ClearParty ==
    /\ LET party == clearParty(partyNpcIds)
           display == updateCurrentNpcs(locationsData, npcsData, party,
                                        locationSelect, roomSelect, Display)
       IN  /\ partyNpcIds' = party
           /\ ShowDisplay(display)
           /\ lastOp' = Op("clearParty", [before |-> partyNpcIds], display)
    /\ UNCHANGED <<initPc, locationsData, npcsData, locationOptions, locationSelect,
                   roomOptions, roomSelect, generationResult, inflight, dispatched>>

-----------------------------------------------------------------------------
(* handleAction, up to its first await: the player's action is shown and    *)
(* the request is sent.                                                     *)

\* as Request, the body built without the room
RequestOfNoRoom(id, type, npcName, promptText) ==
    [id |-> id,
     location_name |-> locationSelect,
     room |-> "",
     npc_names |-> <<npcName>>,
     user_prompt |-> promptText,
     prompt_type |-> type]

Request(id, type, npcName, promptText) ==
    [id |-> id,
     location_name |-> locationSelect,
     room |-> roomSelect,
     npc_names |-> <<npcName>>,
     user_prompt |-> promptText,
     prompt_type |-> type]

\* as ShowPlayerAction, the player's action not shown before the request
ShowPlayerActionLater(html, npcName, promptText) == html

\* the transcript after the synchronous part of handleAction
ShowPlayerAction(html, npcName, promptText) ==
    appendToGeneratedScene(html, PlayerAction(npcName, promptText))

\* as SendRequest, the request sent a second time under another id
SendRequestTwice(requests, request) ==
    requests \cup {request, [request EXCEPT !.id = request.id + MaxDispatch]}

\* the requests in flight after the synchronous part of handleAction
SendRequest(requests, request) == requests \cup {request}

handleAction(type, npcName, promptText) ==
    /\ dispatched' = dispatched + 1
    /\ generationResult' = ShowPlayerAction(generationResult, npcName, promptText)
    /\ inflight' = SendRequest(inflight, Request(dispatched + 1, type, npcName, promptText))

\* texts the user may have typed into userPrompt
Prompts == {"", "Hello", placeholderText}

\* as GenerateRejects, without the test of the prompt
GenerateRejectsNoSelection(promptText, names) == Len(names) = 0

\* if (!promptText || selectedNpcNames.length === 0)
GenerateRejects(promptText, names) == promptText = "" \/ Len(names) = 0

\* generateBtn 'click'
GenerateClick(promptText, idx) ==
    /\ idx \subseteq 1..Len(npcSelect)
    /\ LET names == selectedNpcNames(npcSelect, idx)
       IN  /\ IF GenerateRejects(promptText, names)
              THEN UNCHANGED <<generationResult, inflight, dispatched>>
              ELSE handleAction("dialogue", names[1], promptText)
           /\ lastOp' = Op("generate", [prompt |-> promptText, names |-> names], Display)
    /\ UNCHANGED <<initPc, locationsData, npcsData, partyNpcIds, locationOptions,
                   locationSelect, roomOptions, roomSelect, npcSelect,
                   npcCardContainer, descriptionResult>>

\* npcCardContainer 'click' on the b-th action button of the c-th card
CardClick(c, b) ==
    /\ c \in 1..Len(npcCardContainer)
    /\ b \in 1..Len(npcCardContainer[c].buttons)
    /\ LET card == npcCardContainer[c]
           button == card.buttons[b]
       IN  /\ handleAction(button.type, card.npcName, button.prompt)
           /\ lastOp' = Op("cardClick",
                           [type |-> button.type, npcName |-> card.npcName,
                            prompt |-> button.prompt], Display)
    /\ UNCHANGED <<initPc, locationsData, npcsData, partyNpcIds, locationOptions,
                   locationSelect, roomOptions, roomSelect, npcSelect,
                   npcCardContainer, descriptionResult>>

-----------------------------------------------------------------------------
(* What the backend may answer.  A reply is                                 *)
(*   [kind, error, scene_changes, dialogue, hasDelta, npc_name, options]    *)
(* kind "transport": fetch rejects; "status": a non-ok status whose body    *)
(* carries error; "unparsable": a body response.json() rejects; "data": an  *)
(* ok status with a parsed body.  A dialogue line is                        *)
(*   [hasSpeaker, speaker, line]  (hasSpeaker = FALSE: d.speaker undefined) *)

Line(speaker, line) == [hasSpeaker |-> TRUE, speaker |-> speaker, line |-> line]
LineWithoutSpeaker == [hasSpeaker |-> FALSE, speaker |-> "", line |-> "..."]

Scenes == {"", "The door creaks.", placeholderText}
Lines == {Line("Gorim", "Halt!"), LineWithoutSpeaker}
Dialogues == SeqsUpTo(Lines, MaxDialogue)
DeltaNames == {"Gorim", "Nobody"}
DeltaOptions == {<<>>, <<"Who sent you?">>}
ErrorTexts == {"", "Quota exceeded"}

Failure(kind, error) ==
    [kind |-> kind, error |-> error, scene_changes |-> "", dialogue |-> <<>>,
     hasDelta |-> FALSE, npc_name |-> "", options |-> <<>>]

Data(scene, dialogue, hasDelta, npc_name, options) ==
    [kind |-> "data", error |-> "", scene_changes |-> scene, dialogue |-> dialogue,
     hasDelta |-> hasDelta, npc_name |-> npc_name, options |-> options]

Replies ==
    {Failure("transport", ""), Failure("unparsable", "")}
    \cup {Failure("status", e) : e \in ErrorTexts}
    \cup {Data(s, d, FALSE, "", <<>>) : s \in Scenes, d \in Dialogues}
    \cup {Data(s, d, TRUE, n, o) :
            s \in Scenes, d \in Dialogues, n \in DeltaNames, o \in DeltaOptions}

-----------------------------------------------------------------------------
(* handleAction, from the arrival of the reply to its end.  Nothing of the  *)
(* session is read or written between the awaits of fetch and of            *)
(* response.json(), so the rest of the function is one step.                *)

\* data.dialogue.forEach(d => ...): d.speaker.charAt throws when d.speaker is
\* undefined, and the lines before it are already appended
RECURSIVE AppendDialogue(_, _)
AppendDialogue(html, dialogue) ==
    IF dialogue = <<>> THEN [html |-> html, threw |-> FALSE]
    ELSE IF ~Head(dialogue).hasSpeaker THEN [html |-> html, threw |-> TRUE]
    ELSE AppendDialogue(appendToGeneratedScene(html, NpcLine(Head(dialogue))),
                        Tail(dialogue))

\* if (data.scene_changes) appendToGeneratedScene(sceneChangeHtml)
AppendSceneChanges(html, scene_changes) ==
    IF scene_changes # ""
    THEN appendToGeneratedScene(html, SceneNarration(scene_changes))
    ELSE html

\* as ApplyDelta, the options pushed onto the NPC's list
ApplyDeltaMerging(npcs, npc_name, options) ==
    LET i == FindByName(npcs, npc_name)
    IN  IF i = 0 THEN npcs
        ELSE [npcs EXCEPT ![i].dialogue_options = npcs[i].dialogue_options \o options]

\* as ApplyDelta, the options assigned only to an NPC that has none yet
ApplyDeltaKeepingExisting(npcs, npc_name, options) ==
    LET i == FindByName(npcs, npc_name)
    IN  IF i = 0 \/ npcs[i].dialogue_options # <<>>
        THEN npcs
        ELSE [npcs EXCEPT ![i].dialogue_options = options]

\* npcToUpdate.dialogue_options = options, on the first NPC of that name
ApplyDelta(npcs, npc_name, options) ==
    LET i == FindByName(npcs, npc_name)
    IN  IF i = 0 THEN npcs ELSE [npcs EXCEPT ![i].dialogue_options = options]

\* error.message of what the try block threw
ErrorMessage(reply) ==
    CASE reply.kind = "transport"  -> "Failed to fetch"
      [] reply.kind = "unparsable" -> "Unexpected token"
      [] reply.kind = "status"     -> IF reply.error = "" THEN "Server error"
                                                          ELSE reply.error
      [] OTHER                     -> "Cannot read properties of undefined"

\* the catch block
CatchError(html, reply) == appendToGeneratedScene(html, ErrorEntry(ErrorMessage(reply)))

\* the transcript, the NPC records and whether updateCurrentNpcs is called,
\* after the reply has been handled
HandleReply(html, npcs, reply) ==
    IF reply.kind # "data"
    THEN [html |-> CatchError(html, reply), npcs |-> npcs, update |-> FALSE]
    ELSE LET narrated == AppendSceneChanges(html, reply.scene_changes)
             spoken == AppendDialogue(narrated, reply.dialogue)
         IN  IF spoken.threw
             THEN [html |-> CatchError(spoken.html, reply), npcs |-> npcs,
                   update |-> FALSE]
             ELSE [html |-> spoken.html,
                   npcs |-> IF reply.hasDelta
                            THEN ApplyDelta(npcs, reply.npc_name, reply.options)
                            ELSE npcs,
                   update |-> reply.hasDelta /\ FindByName(npcs, reply.npc_name) # 0]

ReplyArrives(request, reply) ==
    /\ request \in inflight
    /\ inflight' = inflight \ {request}
    /\ LET after == HandleReply(generationResult, npcsData, reply)
           display == IF after.update
                      THEN updateCurrentNpcs(locationsData, after.npcs, partyNpcIds,
                                             locationSelect, roomSelect, Display)
                      ELSE Display
       IN  /\ generationResult' = after.html
           /\ npcsData' = after.npcs
           /\ ShowDisplay(display)
           /\ lastOp' = Op("reply", [request |-> request, reply |-> reply,
                                     before |-> npcsData], display)
    /\ UNCHANGED <<initPc, locationsData, partyNpcIds, locationOptions,
                   locationSelect, roomOptions, roomSelect, dispatched>>

-----------------------------------------------------------------------------
(* The session *)

Init ==
    /\ initPc = "fetch"
    /\ locationsData = <<>>
    /\ npcsData = <<>>
    /\ partyNpcIds = {}
    /\ locationOptions = <<>>
    /\ locationSelect = ""
    /\ roomOptions = <<>>
    /\ roomSelect = ""
    /\ npcSelect = <<>>
    /\ npcCardContainer = <<>>
    /\ descriptionResult = DescriptionInitial
    /\ generationResult = <<Placeholder>>
    /\ inflight = {}
    /\ dispatched = 0
    /\ lastOp = Op("load", NoArg, Display)

\* the user's part: the controls of the page
UserAction ==
    \/ \E locationName \in Range(locationOptions) \cup {""} : SelectLocation(locationName)
    \/ \E roomName \in Range(roomOptions) \cup {""} : SelectRoom(roomName)
    \/ \E idx \in SUBSET (1..Len(npcSelect)) : SetParty(idx)
    \/ ClearParty

\* a click that may call handleAction; limit bounds the calls of a run
DispatchAction(limit) ==
    \/ \E promptText \in Prompts, idx \in SUBSET (1..Len(npcSelect)) :
          /\ dispatched < limit
          /\ GenerateClick(promptText, idx)
    \/ \E c \in 1..Len(npcCardContainer) :
          \E b \in 1..Len(npcCardContainer[c].buttons) :
             /\ dispatched < limit
             /\ CardClick(c, b)

Next ==
    \/ \E ok \in BOOLEAN : FetchBoth(ok)
    \/ \E ok \in BOOLEAN, locs \in LocationCatalogs : ParseLocations(ok, locs)
    \/ \E ok \in BOOLEAN, npcs \in NpcCatalogs : ParseNpcs(ok, npcs)
    \/ UserAction
    \/ DispatchAction(MaxDispatch)
    \/ \E request \in inflight, reply \in Replies : ReplyArrives(request, reply)

Spec == Init /\ [][Next]_vars

\* The cast alone: every catalog with unique ids already loaded, and the
\* controls that resolve the cast.
InitCast ==
    /\ initPc = "done"
    /\ locationsData \in LocationCatalogsCast
    /\ npcsData \in NpcCatalogsCast
    /\ partyNpcIds = {}
    /\ locationOptions = populateLocations(locationsData)
    /\ locationSelect = ""
    /\ roomOptions = <<>>
    /\ roomSelect = ""
    /\ npcSelect = <<>>
    /\ npcCardContainer = <<>>
    /\ descriptionResult = DescriptionInitial
    /\ generationResult = <<Placeholder>>
    /\ inflight = {}
    /\ dispatched = 0
    /\ lastOp = Op("load", NoArg, Display)

NextCast == UserAction

SpecCast == InitCast /\ [][NextCast]_vars

\* Overlapping dispatches: the catalog loaded and the Hall of the Keep
\* entered, then clicks that call handleAction while earlier requests are
\* still in flight, and the replies in any order.
MaxOverlap == 2

ScenesOverlap == {"", "The door creaks."}
DialoguesOverlap == {<<>>, <<Line("Gorim", "Halt!")>>}
DeltaNamesOverlap == {"Gorim", "Elara"}
DeltaOptionsOverlap == {<<>>, <<"Who sent you?">>, <<"Leave.">>}

RepliesOverlap ==
    {Failure("transport", "")}
    \cup {Data(s, d, FALSE, "", <<>>) : s \in ScenesOverlap, d \in DialoguesOverlap}
    \cup {Data(s, d, TRUE, n, o) :
            s \in ScenesOverlap, d \in DialoguesOverlap,
            n \in DeltaNamesOverlap, o \in DeltaOptionsOverlap}

InitOverlap ==
    /\ initPc = "done"
    /\ locationsData = <<Keep>>
    /\ npcsData = NpcsTwo
    /\ partyNpcIds = {}
    /\ locationOptions = populateLocations(locationsData)
    /\ locationSelect = "Keep"
    /\ roomOptions = populateRooms(locationsData, "Keep")
    /\ roomSelect = "Hall"
    /\ generationResult = <<Placeholder>>
    /\ inflight = {}
    /\ dispatched = 0
    /\ LET display == updateCurrentNpcs(locationsData, npcsData, partyNpcIds,
                                        "Keep", "Hall",
                                        [description |-> DescriptionSelectRoom,
                                         npcSelect |-> <<>>,
                                         cards |-> <<>>,
                                         ran |-> FALSE,
                                         scene |-> <<>>])
       IN  /\ descriptionResult = display.description
           /\ npcSelect = display.npcSelect
           /\ npcCardContainer = display.cards
           /\ lastOp = Op("selectRoom", [room |-> "Hall"], display)

NextOverlap ==
    \/ DispatchAction(MaxOverlap)
    \/ \E request \in inflight, reply \in RepliesOverlap : ReplyArrives(request, reply)

SpecOverlap == InitOverlap /\ [][NextOverlap]_vars

-----------------------------------------------------------------------------
(* Properties of the cast *)

\* the room updateCurrentNpcs resolved in a state where it ran
CurrentRoom ==
    LET location == locationsData[FindByName(locationsData, locationSelect)]
    IN  location.rooms[FindByName(location.rooms, roomSelect)]

\* C1: whenever updateCurrentNpcs has computed a cast, no _id occurs twice in
\* allNpcsInScene, and npcSelect shows one option per NPC of it.
CastHasNoDuplicate ==
    lastOp.ran =>
        /\ \A i, j \in 1..Len(lastOp.scene) :
              i # j => lastOp.scene[i]._id # lastOp.scene[j]._id
        /\ Len(npcSelect) = Len(lastOp.scene)

\* a cast computed with an NPC that is in the party and native to the room
CastOfPartyMemberInOwnRoom ==
    /\ lastOp.ran
    /\ \E i \in 1..Len(lastOp.scene) :
          /\ lastOp.scene[i]._id \in partyNpcIds
          /\ lastOp.scene[i].name \in roomNpcNames(CurrentRoom)

\* C2: whenever updateCurrentNpcs has computed a cast, no NPC whose _id is
\* not in partyNpcIds comes before an NPC whose _id is in partyNpcIds.
PartyMembersComeFirst ==
    lastOp.ran =>
        \A i, j \in 1..Len(lastOp.scene) :
            (i < j /\ lastOp.scene[j]._id \in partyNpcIds)
                => lastOp.scene[i]._id \in partyNpcIds

\* a cast where a party member stands before a room NPC that the catalog
\* lists earlier
CastOfPartyMemberMovedForward ==
    /\ lastOp.ran
    /\ \E i, j \in 1..Len(lastOp.scene) :
          /\ i < j
          /\ lastOp.scene[i]._id \in partyNpcIds
          /\ lastOp.scene[j]._id \notin partyNpcIds
          /\ lastOp.scene[i]._id > lastOp.scene[j]._id

\* C3: when updateCurrentNpcs runs to its end in two steps in a row and the
\* catalog, the selected location and room and the party are the same in
\* both, the second run leaves the options, the cards, the description and
\* the computed cast as the first left them; and a room change, which runs
\* updateCurrentNpcs alone, changes neither the party nor the catalog.
CastResolutionIsIdempotent ==
    [][ /\ ( /\ lastOp.ran
             /\ lastOp'.ran
             /\ UNCHANGED <<locationsData, npcsData, partyNpcIds,
                            locationSelect, roomSelect>> )
           => /\ UNCHANGED <<npcSelect, npcCardContainer, descriptionResult>>
              /\ lastOp'.scene = lastOp.scene
        /\ lastOp'.op = "selectRoom"
           => UNCHANGED <<partyNpcIds, npcsData, locationsData>>
      ]_vars

\* updateCurrentNpcs has run again on a cast that is not empty: the party
\* was cleared while it was empty, in a room that is shown
CastResolvedAgain ==
    /\ lastOp.op = "clearParty"
    /\ lastOp.ran
    /\ lastOp.arg.before = {}
    /\ Len(npcSelect) > 1

\* C4: after setParty the party is exactly the ids of the catalog NPCs whose
\* name was selected, whatever it was before; after clearParty it is empty.
SetPartyReplaces ==
    /\ lastOp.op = "setParty" =>
          partyNpcIds = {n._id : n \in {m \in Range(npcsData) :
                                          m.name \in Range(lastOp.arg.names)}}
    /\ lastOp.op = "clearParty" => partyNpcIds = {}

\* setParty has dropped a member of the party it replaced
SetPartyDroppedMember ==
    /\ lastOp.op = "setParty"
    /\ partyNpcIds # {}
    /\ \E id \in lastOp.arg.before : id \notin partyNpcIds

-----------------------------------------------------------------------------
(* Properties of the dispatcher and of the transcript *)

\* the entries of the transcript: the placeholder is no entry
Transcript(html) == IF html = <<Placeholder>> THEN <<>> ELSE html

IsPrefix(s, t) == Len(s) <= Len(t) /\ SubSeq(t, 1, Len(s)) = s

\* a reply with an ok status and a body in which every dialogue line has a
\* speaker and a line
Successful(reply) ==
    /\ reply.kind = "data"
    /\ \A i \in 1..Len(reply.dialogue) : reply.dialogue[i].hasSpeaker

\* C5: a click on generate with an empty prompt, or with no NPC selected,
\* appends nothing to the transcript, sends no request and leaves the party
\* and the catalog as they were.
EmptyGenerateIsRejected ==
    [][ ( /\ lastOp'.op = "generate"
          /\ lastOp'.arg.prompt = "" \/ lastOp'.arg.names = <<>> )
        => UNCHANGED <<generationResult, inflight, dispatched, partyNpcIds,
                       npcsData, locationsData>>
      ]_vars

\* generate was clicked with an empty prompt while NPCs were selected
GenerateClickedWithEmptyPrompt ==
    /\ lastOp.op = "generate"
    /\ lastOp.arg.prompt = ""
    /\ lastOp.arg.names # <<>>

\* C6: the step that sends a request is the step of the click, and it leaves
\* the PlayerAction entry of that request as the last entry of the transcript:
\* the entry is appended before the request is in flight.
PlayerActionShownBeforeRequest ==
    [][ \A request \in inflight' \ inflight :
            /\ lastOp'.op \in {"generate", "cardClick"}
            /\ generationResult' # <<>>
            /\ generationResult'[Len(generationResult')]
                  = PlayerAction(request.npc_names[1], request.user_prompt)
      ]_vars

\* a request is in flight and the transcript ends with its PlayerAction entry
RequestInFlightAfterPlayerAction ==
    \E request \in inflight :
        /\ Len(generationResult) > 0
        /\ generationResult[Len(generationResult)]
              = PlayerAction(request.npc_names[1], request.user_prompt)

\* what a successful reply is to append: its narration if it has one, then
\* one NpcLine entry for each dialogue line, in the order of the reply
RepliedEntries(reply) ==
    (IF reply.scene_changes # "" THEN <<SceneNarration(reply.scene_changes)>> ELSE <<>>)
    \o [i \in 1..Len(reply.dialogue) |-> NpcLine(reply.dialogue[i])]

\* C7: the step that handles a successful reply extends the transcript by
\* the narration, if the reply has one, and then one NpcLine entry per
\* dialogue line in the order of the reply, none dropped.
SuccessAppendsNarrationThenLines ==
    [][ (lastOp'.op = "reply" /\ Successful(lastOp'.arg.reply))
        => Transcript(generationResult')
              = Transcript(generationResult) \o RepliedEntries(lastOp'.arg.reply)
      ]_vars

\* C8: after a successful reply with a delta for a name of the catalog, the
\* dialogue_options of the NPC of that name are the options of the delta.
DeltaReplacesOptions ==
    ( /\ lastOp.op = "reply"
      /\ Successful(lastOp.arg.reply)
      /\ lastOp.arg.reply.hasDelta )
    => \A i \in 1..Len(npcsData) :
          npcsData[i].name = lastOp.arg.reply.npc_name
             => npcsData[i].dialogue_options = lastOp.arg.reply.options

\* a delta has replaced the options Gorim was loaded with: "Any news?" is
\* gone, on the record and on the card
DeltaReplacedLoadedOptions ==
    /\ lastOp.op = "reply"
    /\ Successful(lastOp.arg.reply)
    /\ lastOp.arg.reply.hasDelta
    /\ lastOp.arg.reply.npc_name = "Gorim"
    /\ lastOp.arg.reply.options = <<"Who sent you?">>
    /\ \E i \in 1..Len(npcsData) :
          /\ npcsData[i].name = "Gorim"
          /\ npcsData[i].dialogue_options = <<"Who sent you?">>
    /\ \E c \in 1..Len(npcCardContainer) :
          /\ npcCardContainer[c].npcName = "Gorim"
          /\ \A b \in 1..Len(npcCardContainer[c].buttons) :
                npcCardContainer[c].buttons[b].prompt # "Any news?"

\* C9: the step that handles a failed request (a transport error or a
\* non-success status) keeps every entry of the transcript, the PlayerAction
\* entry of the request among them, appends one error entry and leaves the
\* party, the cast and the NPC records as they were.
FailureKeepsPlayerAction ==
    [][ (lastOp'.op = "reply" /\ lastOp'.arg.reply.kind \in {"transport", "status"})
        => /\ Len(Transcript(generationResult')) = Len(Transcript(generationResult)) + 1
           /\ IsPrefix(Transcript(generationResult), Transcript(generationResult'))
           /\ generationResult'[Len(generationResult')].kind = "error"
           /\ UNCHANGED <<partyNpcIds, npcSelect, npcCardContainer, npcsData>>
      ]_vars

\* C10: no step removes, rewrites or reorders an entry of the transcript:
\* the transcript before a step is a prefix of the transcript after it.
TranscriptIsAppendOnly ==
    [][ IsPrefix(Transcript(generationResult), Transcript(generationResult')) ]_vars

-----------------------------------------------------------------------------
(* Introductions, the party across the session, and the load *)

\* the introduction entries of an NPC in a transcript: the positions of the
\* entries that show the NPC's introduction line
Introductions(html, npcName) ==
    {k \in 1..Len(html) : html[k].kind = "introduction" /\ html[k].who = npcName}

\* the names of the cast npcSelect shows
ShownNames(options) == {options[k].value : k \in 1..Len(options)}

\* C11: the step that enters a room appends one introduction entry for each
\* NPC of the cast it computes; a step that computes the cast again in the
\* same room (setParty, clearParty, a delta) appends one for each NPC that
\* was not in the cast shown before and none for the others.
IntroductionShownOncePerVisit ==
    [][ lastOp'.ran =>
          \A i \in 1..Len(lastOp'.scene) :
             LET name == lastOp'.scene[i].name
                 before == Cardinality(Introductions(generationResult, name))
                 after == Cardinality(Introductions(generationResult', name))
             IN  IF lastOp'.op = "selectRoom" \/ name \notin ShownNames(npcSelect)
                 THEN after = before + 1
                 ELSE after = before
      ]_vars

\* C12: a step changes partyNpcIds only if it is setParty or clearParty, so
\* that selecting a location or a room, a dispatch and the arrival of a reply
\* leave it as it was; and the cast computed on entering a room holds every
\* NPC of the catalog whose _id is in partyNpcIds, shown as a party member.
PartyChangesOnlyByCommand ==
    [][ /\ partyNpcIds' # partyNpcIds => lastOp'.op \in {"setParty", "clearParty"}
        /\ (lastOp'.op = "selectRoom" /\ lastOp'.ran) =>
              \A n \in 1..Len(npcsData') :
                 npcsData'[n]._id \in partyNpcIds' =>
                    \E k \in 1..Len(npcSelect') :
                       /\ lastOp'.scene[k]._id = npcsData'[n]._id
                       /\ npcSelect'[k].value = npcsData'[n].name
                       /\ npcSelect'[k].isPartyMember
      ]_vars

\* after a dispatch and its reply, a room was entered whose cast holds a
\* party member that is not native to the room
PartyMemberFollowedIntoRoom ==
    /\ lastOp.op = "selectRoom"
    /\ lastOp.ran
    /\ dispatched > 0
    /\ inflight = {}
    /\ \E k \in 1..Len(lastOp.scene) :
          /\ lastOp.scene[k]._id \in partyNpcIds
          /\ lastOp.scene[k].name \notin roomNpcNames(CurrentRoom)

\* C13: when fetchInitialData has ended in its catch block, the failure
\* message is shown and locationsData and npcsData are both still empty.
InitializationIsAllOrNothing ==
    initPc = "failed" =>
        /\ descriptionResult = DescriptionLoadError
        /\ locationsData = <<>>
        /\ npcsData = <<>>
        /\ locationOptions = <<>>

-----------------------------------------------------------------------------
(* Card buttons, the placeholder, the members of the cast, the requests *)

\* C14: a click on a dialogue button of an NPC card sends no request and
\* extends the transcript by exactly one NpcLine entry of that NPC.
CannedConversationIsLocal ==
    [][ (lastOp'.op = "cardClick" /\ lastOp'.arg.type = "dialogue")
        => /\ inflight' = inflight
           /\ Len(generationResult') > 0
           /\ generationResult'
                 = Append(Transcript(generationResult),
                          generationResult'[Len(generationResult')])
           /\ generationResult'[Len(generationResult')].kind = "npc"
           /\ generationResult'[Len(generationResult')].who = lastOp'.arg.npcName
      ]_vars

\* the reply makes handleAction append one entry, from its catch block
FailedBeforeAnyAppend(reply) == reply.kind \in {"transport", "unparsable", "status"}

\* C15: a step that calls appendToGeneratedScene once (a dispatch, which
\* appends the PlayerAction entry, or a reply that fails before anything of
\* it is shown, which appends the error entry) leaves the entry alone when
\* the transcript was the placeholder and the entries it held followed by the
\* entry otherwise, whatever text the entries hold.
AppendReplacesPlaceholderOnly ==
    [][ /\ \A request \in inflight' \ inflight :
              generationResult'
                 = Append(Transcript(generationResult),
                          PlayerAction(request.npc_names[1], request.user_prompt))
        /\ (lastOp'.op = "reply" /\ FailedBeforeAnyAppend(lastOp'.arg.reply))
           => generationResult'
                 = Append(Transcript(generationResult),
                          ErrorEntry(ErrorMessage(lastOp'.arg.reply)))
      ]_vars

\* C16: whenever updateCurrentNpcs has computed a cast, the NPCs in it are
\* the NPCs of the catalog whose _id is in partyNpcIds or whose name is in
\* the npcs of the room, a name without an NPC adding nothing, and option k
\* of npcSelect shows NPC k tagged as a party member iff its _id is in
\* partyNpcIds.
CastIsPartyAndRoom ==
    lastOp.ran =>
        /\ Range(lastOp.scene)
              = {n \in Range(npcsData) :
                    n._id \in partyNpcIds \/ n.name \in roomNpcNames(CurrentRoom)}
        /\ Len(npcSelect) = Len(lastOp.scene)
        /\ \A k \in 1..Len(lastOp.scene) :
              /\ npcSelect[k].value = lastOp.scene[k].name
              /\ npcSelect[k].isPartyMember = (lastOp.scene[k]._id \in partyNpcIds)

\* a cast computed in a room that lists a name no NPC of the catalog bears,
\* with a party member that is not native to the room and an NPC that is
CastOfRoomWithUnknownName ==
    /\ lastOp.ran
    /\ \E name \in roomNpcNames(CurrentRoom) : FindByName(npcsData, name) = 0
    /\ \E k \in 1..Len(lastOp.scene) :
          /\ lastOp.scene[k]._id \in partyNpcIds
          /\ lastOp.scene[k].name \notin roomNpcNames(CurrentRoom)
    /\ \E k \in 1..Len(lastOp.scene) : lastOp.scene[k]._id \notin partyNpcIds

\* the click called handleAction: a card button, or generate with a prompt
\* and a selection
Accepted(op) ==
    \/ op.op = "cardClick"
    \/ op.op = "generate" /\ op.arg.prompt # "" /\ op.arg.names # <<>>

\* C17: a step of an accepted dispatch puts exactly one new request in
\* flight and counts one more call of handleAction; every other step sends
\* nothing, and the arrival of a reply, failed or not, only takes its own
\* request out of flight.
OneRequestPerDispatch ==
    [][ IF Accepted(lastOp')
        THEN /\ inflight \subseteq inflight'
             /\ Cardinality(inflight' \ inflight) = 1
             /\ dispatched' = dispatched + 1
        ELSE /\ inflight' \subseteq inflight
             /\ dispatched' = dispatched
             /\ lastOp'.op = "reply" => inflight' = inflight \ {lastOp'.arg.request}
      ]_vars

\* the one request of the session has failed and nothing is in flight
FailedRequestNotResent ==
    /\ lastOp.op = "reply"
    /\ lastOp.arg.reply.kind \in {"transport", "status"}
    /\ dispatched = 1
    /\ inflight = {}

-----------------------------------------------------------------------------
(* The scope of a request, empty prompts, overlapping deltas *)

\* what a step that sends a request sends, but for its targets: the
\* location and the room selected at the click, the prompt and its kind
RequestScopedToSelection(request, click) ==
    /\ request.location_name = locationSelect
    /\ request.room = roomSelect
    /\ request.user_prompt = click.arg.prompt
    /\ click.op = "generate" => request.prompt_type = "dialogue"
    /\ click.op = "cardClick" =>
          /\ request.prompt_type = click.arg.type
          /\ request.npc_names = <<click.arg.npcName>>

\* C18, as claimed: the request of a click is scoped to the location and
\* the room selected at the click, and the request of a click on generate
\* names every selected NPC, in the order of the selection.
RequestScopedToTargetList ==
    [][ \A request \in inflight' \ inflight :
            /\ RequestScopedToSelection(request, lastOp')
            /\ lastOp'.op = "generate" => request.npc_names = lastOp'.arg.names
      ]_vars

\* C18, amended: the request of a click is scoped to the location and the
\* room selected at the click, and the request of a click on generate names
\* one NPC, the first of the selected ones.
RequestScopedToFirstTarget ==
    [][ \A request \in inflight' \ inflight :
            /\ RequestScopedToSelection(request, lastOp')
            /\ lastOp'.op = "generate" =>
                  request.npc_names = <<lastOp'.arg.names[1]>>
      ]_vars

\* generate was clicked with two NPCs selected, and its request is in flight
GenerateWithSeveralSelected ==
    /\ lastOp.op = "generate"
    /\ Len(lastOp.arg.names) >= 2
    /\ \E request \in inflight :
          /\ request.user_prompt = lastOp.arg.prompt
          /\ request.npc_names = <<lastOp.arg.names[1]>>
          /\ request.room = roomSelect
          /\ request.room # ""

\* C19: a click whose prompt is empty, on generate or on an action button of
\* an NPC card, appends nothing to the transcript and sends no request.
EmptyPromptIsRejectedForEveryKind ==
    [][ (lastOp'.op \in {"generate", "cardClick"} /\ lastOp'.arg.prompt = "")
        => UNCHANGED <<generationResult, inflight, dispatched>>
      ]_vars

\* the reply is applied to its end and carries a delta
CarriesDelta(reply) == Successful(reply) /\ reply.hasDelta

\* C20: when the replies of two requests that were in flight together
\* arrive one after the other and both carry a delta for the same NPC of the
\* catalog, the dialogue_options of that NPC are then the options of the
\* reply that arrived second, whichever of the two requests it answers.
LastArrivalWins ==
    [][ ( /\ lastOp.op = "reply"
          /\ lastOp'.op = "reply"
          /\ CarriesDelta(lastOp.arg.reply)
          /\ CarriesDelta(lastOp'.arg.reply)
          /\ lastOp.arg.reply.npc_name = lastOp'.arg.reply.npc_name )
        => \A i \in 1..Len(npcsData') :
              npcsData'[i].name = lastOp'.arg.reply.npc_name
                 => npcsData'[i].dialogue_options = lastOp'.arg.reply.options
      ]_vars

\* both requests are answered, the one dispatched first last: its delta
\* found the options another delta had given to Elara and replaced them
EarlierRequestAnsweredLast ==
    /\ lastOp.op = "reply"
    /\ dispatched = 2
    /\ inflight = {}
    /\ lastOp.arg.request.id = 1
    /\ CarriesDelta(lastOp.arg.reply)
    /\ lastOp.arg.reply.npc_name = "Elara"
    /\ lastOp.arg.reply.options = <<"Who sent you?">>
    /\ \E i \in 1..Len(npcsData) :
          /\ npcsData[i].name = "Elara"
          /\ lastOp.arg.before[i].dialogue_options = <<"Leave.">>
          /\ npcsData[i].dialogue_options = <<"Who sent you?">>

-----------------------------------------------------------------------------
(* What a reply may touch, and how a dispatch ends *)

\* C21: the step that handles the reply to a request leaves the locations
\* as they were, and every NPC record too, but for the dialogue_options of
\* an NPC the request names in npc_names.
ReplyMutatesOnlyItsTarget ==
    [][ lastOp'.op = "reply" =>
          /\ locationsData' = locationsData
          /\ Len(npcsData') = Len(npcsData)
          /\ \A i \in 1..Len(npcsData) :
                \/ npcsData'[i] = npcsData[i]
                \/ /\ npcsData[i].name \in Range(lastOp'.arg.request.npc_names)
                   /\ npcsData'[i] = [npcsData[i] EXCEPT !.dialogue_options =
                                         npcsData'[i].dialogue_options]
      ]_vars

\* the positions, in the transcript after a step, of the entries of the
\* given kinds that the transcript before the step did not hold
Appended(before, after, kinds) ==
    {k \in 1..Len(after) : after[k].kind \in kinds /\ after[k] \notin Range(before)}

\* C22: the step that handles a reply either applies it as a success and
\* appends no error entry, or appends exactly one error entry, no
\* SceneNarration or NpcLine entry, and leaves the NPC records as they were.
DispatchEndsOneWay ==
    [][ lastOp'.op = "reply" =>
          LET errors == Appended(generationResult, generationResult', {"error"})
              shown == Appended(generationResult, generationResult', {"scene", "npc"})
          IN  \/ /\ Successful(lastOp'.arg.reply)
                 /\ errors = {}
              \/ /\ Cardinality(errors) = 1
                 /\ shown = {}
                 /\ npcsData' = npcsData
      ]_vars

-----------------------------------------------------------------------------
(* Overlapping dispatches and the transcript *)

IsSuffix(s, t) == Len(s) <= Len(t) /\ SubSeq(t, Len(t) - Len(s) + 1, Len(t)) = s

\* the entries a step has put at the end of the transcript: what follows
\* the entries it found or, when those are gone, all there is
NewBlock(before, after) ==
    IF IsPrefix(Transcript(before), Transcript(after))
    THEN SubSeq(Transcript(after), Len(Transcript(before)) + 1, Len(Transcript(after)))
    ELSE Transcript(after)

\* C23: with requests in flight together, the step that handles a
\* successful reply puts the entries of that reply, in their order and with
\* nothing between them, at the end of the transcript, and in the same step
\* gives the options of its delta to the NPC it names; the step of a click
\* puts at most its one PlayerAction entry at the end.  So no entry of
\* another dispatch comes between the entries of one reply.
ResponseEntriesAreContiguous ==
    [][ LET block == NewBlock(generationResult, generationResult')
        IN  /\ (lastOp'.op = "reply" /\ Successful(lastOp'.arg.reply)) =>
                  /\ IsSuffix(block, RepliedEntries(lastOp'.arg.reply))
                  /\ lastOp'.arg.reply.hasDelta =>
                        \A i \in 1..Len(npcsData') :
                           npcsData'[i].name = lastOp'.arg.reply.npc_name
                              => npcsData'[i].dialogue_options
                                    = lastOp'.arg.reply.options
            /\ lastOp'.op \in {"generate", "cardClick"} =>
                  /\ Len(block) <= 1
                  /\ \A k \in 1..Len(block) : block[k].kind = "player"
      ]_vars

\* two requests were in flight together when the reply to the first came:
\* its narration and its line stand together after the two PlayerAction
\* entries, its delta is applied, and the second request is still in flight
ReplyArrivedBetweenDispatches ==
    /\ lastOp.op = "reply"
    /\ lastOp.arg.request.id = 1
    /\ dispatched = 2
    /\ Cardinality(inflight) = 1
    /\ Len(generationResult) = 4
    /\ generationResult[1].kind = "player"
    /\ generationResult[2].kind = "player"
    /\ generationResult[3] = SceneNarration("The door creaks.")
    /\ generationResult[4] = NpcLine(Line("Gorim", "Halt!"))
    /\ lastOp.arg.reply.hasDelta
    /\ lastOp.arg.reply.npc_name = "Gorim"
    /\ lastOp.arg.reply.options = <<"Leave.">>
    /\ \E c \in 1..Len(npcCardContainer) :
          /\ npcCardContainer[c].npcName = "Gorim"
          /\ \E b \in 1..Len(npcCardContainer[c].buttons) :
                npcCardContainer[c].buttons[b].prompt = "Leave."

-----------------------------------------------------------------------------
(* The cast on the page *)

\* the selected location has a room of the selected name
RoomIsSelected ==
    LET li == FindByName(locationsData, locationSelect)
    IN  li # 0 /\ FindByName(locationsData[li].rooms, roomSelect) # 0

\* the cast of the selected room and the party, empty without a room
CurrentCast ==
    IF RoomIsSelected
    THEN allNpcsInScene(npcsData, CurrentRoom, partyNpcIds)
    ELSE <<>>

\* C24: in every state the options of npcSelect and the NPC cards are those
\* of the cast resolved from the selected location, the selected room and
\* the party, and there are none when no room is selected; so every card
\* button belongs to an NPC of that cast.
ShownCastIsCurrentCast ==
    /\ npcSelect = [k \in 1..Len(CurrentCast) |->
                       Option(CurrentCast[k], CurrentCast[k]._id \in partyNpcIds)]
    /\ npcCardContainer = [k \in 1..Len(CurrentCast) |-> renderNpcCard(CurrentCast[k])]

====
